---- MODULE Spec2Model ----
(***************************************************************************)
(* Model of the production scheduler: the job/machine collection of        *)
(* ProductionScheduler, the constraint model that optimize builds, the     *)
(* outcomes the solver may report for it, the schedule read back from a    *)
(* solution, ScheduleValidator.validate_schedule and                       *)
(* get_schedule_statistics.                                                *)
(*                                                                         *)
(* Python dicts are functions whose DOMAIN is the set of keys present;     *)
(* lists are sequences (1-based here, 0-based in the source); None is the  *)
(* one-key function PyNone.  A machine's capabilities list is used only    *)
(* through "in", so it is a set.  Job.due_date, Job.priority and           *)
(* Job.release_date are read by no code of the scheduler and are left out. *)
(* Job and machine ids are distinct, as the data model requires.           *)
(***************************************************************************)
EXTENDS Integers, Sequences, FiniteSets, TLC

VARIABLES
    horizon,    \* ProductionScheduler.horizon
    jobs,       \* ProductionScheduler.jobs
    machines,   \* ProductionScheduler.machines
    pc,         \* position of the caller (main): which call comes next
    status,     \* status returned by solver.Solve inside optimize
    result,     \* value returned by optimize (a schedule or PyNone)
    input,      \* schedule handed to validate_schedule
    valid,      \* first component of validate_schedule's return value
    issues,     \* second component of validate_schedule's return value
    stats,      \* value returned by get_schedule_statistics
    raised      \* exception that left the last call, "none" if it returned

vars == <<horizon, jobs, machines, pc, status, result, input, valid, issues, stats, raised>>

----------------------------------------------------------------------------
(* Bounds of the model *)

\* horizon_minutes passed to the constructor in the general specification
Horizon == 3
\* longest operations list of a job added in the general specification
MaxOps == 2
\* latest start time of an operation in the solutions the solver is taken to return
LatestStart == 210
\* largest start_time / end_time of a hand-constructed schedule
MaxTime == 1

----------------------------------------------------------------------------
(* Python values *)

PyNone == [py_none |-> TRUE]

IsNone(v) == DOMAIN v = {"py_none"}

EmptyDict == [k \in {} |-> TRUE]

\* truth value of a dict-or-None, as "if schedule" / "if not schedule" see it
Truthy(v) == ~IsNone(v) /\ DOMAIN v # {}

RECURSIVE SeqSum(_)
SeqSum(s) == IF s = <<>> THEN 0 ELSE Head(s) + SeqSum(Tail(s))

SetMax(S) == CHOOSE x \in S : \A y \in S : y <= x

SetMin(S) == CHOOSE x \in S : \A y \in S : x <= y

----------------------------------------------------------------------------
(* config/settings.py and utils/helpers.py *)

OPERATION_DURATIONS ==
    [cutting |-> 45, welding |-> 60, assembly |-> 90, painting |-> 120,
     testing |-> 30, machining |-> 75, heat_treatment |-> 180,
     quality_check |-> 25, surface_finish |-> 55]

get_operation_duration(operation) ==
    IF operation \in DOMAIN OPERATION_DURATIONS
    THEN OPERATION_DURATIONS[operation]
    ELSE 60

----------------------------------------------------------------------------
(* models/data_models.py *)

Job(id, ops) == [job_id |-> id, operations |-> ops]

\* efficiency_factor is a Python float: the double nearest to the positive
\* number num/den the caller wrote (1.0 is <<1, 1>>, 2.2 is <<22, 10>>)
Machine(id, caps, num, den) ==
    [machine_id |-> id, capabilities |-> caps, efficiency_factor |-> <<num, den>>]

----------------------------------------------------------------------------
(* ProductionScheduler: the constraint model built by optimize *)

\* [m for m in self.machines if operation in m.capabilities]
compatible_machines(operation) ==
    SelectSeq(machines, LAMBDA m : operation \in m.capabilities)

Range(s) == {s[i] : i \in DOMAIN s}

(* Python's float arithmetic (IEEE 754 binary64, round to nearest, ties to even),
   computed exactly on natural numbers held as little-endian sequences of limbs *)

LimbBase == 16384

RECURSIVE BigOfNat(_)
BigOfNat(n) ==
    IF n = 0 THEN <<>> ELSE <<n % LimbBase>> \o BigOfNat(n \div LimbBase)

RECURSIVE BigMulSmall(_, _, _)
BigMulSmall(x, k, carry) ==
    IF x = <<>> THEN BigOfNat(carry)
    ELSE LET t == x[1] * k + carry
         IN  <<t % LimbBase>> \o BigMulSmall(Tail(x), k, t \div LimbBase)

RECURSIVE Pow2(_)
Pow2(s) == IF s = 0 THEN 1 ELSE 2 * Pow2(s - 1)

RECURSIVE BigShiftLeft(_, _)
BigShiftLeft(x, s) ==
    IF s >= 14 THEN <<0>> \o BigShiftLeft(x, s - 14) ELSE BigMulSmall(x, Pow2(s), 0)

RECURSIVE BigAdd(_, _, _)
BigAdd(x, y, carry) ==
    IF x = <<>> /\ y = <<>> THEN BigOfNat(carry)
    ELSE LET x1 == IF x = <<>> THEN 0 ELSE x[1]
             y1 == IF y = <<>> THEN 0 ELSE y[1]
             t == x1 + y1 + carry
         IN  <<t % LimbBase>>
                 \o BigAdd(IF x = <<>> THEN <<>> ELSE Tail(x),
                           IF y = <<>> THEN <<>> ELSE Tail(y), t \div LimbBase)

\* -1, 0 or 1 as x is less than, equal to or greater than y
RECURSIVE BigCompare(_, _)
BigCompare(x, y) ==
    IF x = <<>> /\ y = <<>> THEN 0
    ELSE LET x1 == IF x = <<>> THEN 0 ELSE x[1]
             y1 == IF y = <<>> THEN 0 ELSE y[1]
             hi == BigCompare(IF x = <<>> THEN <<>> ELSE Tail(x),
                              IF y = <<>> THEN <<>> ELSE Tail(y))
         IN  IF hi # 0 THEN hi ELSE IF x1 < y1 THEN -1 ELSE IF x1 > y1 THEN 1 ELSE 0

RECURSIVE BigDivSmall(_, _)
BigDivSmall(x, k) ==
    IF x = <<>> THEN [quot |-> <<>>, rem |-> 0]
    ELSE LET hi == BigDivSmall(Tail(x), k)
             cur == hi.rem * LimbBase + x[1]
         IN  [quot |-> <<cur \div k>> \o hi.quot, rem |-> cur % k]

\* the e with 2^e <= n/d < 2^(e+1)
RECURSIVE Log2Floor(_, _)
Log2Floor(n, d) ==
    IF n >= 2 * d THEN Log2Floor(n, 2 * d) + 1
    ELSE IF n < d THEN Log2Floor(2 * n, d) - 1
    ELSE 0

\* the double nearest to num/den, as mantissa / 2^scale with a 53-bit mantissa
float_value(num, den) ==
    LET scale == 52 - Log2Floor(num, den)
        d == BigDivSmall(BigShiftLeft(BigOfNat(num), scale), den)
        up == 2 * d.rem > den \/ (2 * d.rem = den /\ d.quot[1] % 2 = 1)
    IN  [mantissa |-> IF up THEN BigAdd(d.quot, <<1>>, 0) ELSE d.quot,
         scale |-> scale]

\* floor of the exact quotient n / x of the integer n by the double x; it is
\* within one of near, the floor of n divided by the number x approximates
floor_truediv(n, x, near) ==
    LET dividend == BigShiftLeft(BigOfNat(n), x.scale)
        fits(k) == BigCompare(BigMulSmall(x.mantissa, k, 0), dividend) <= 0
    IN  CHOOSE k \in {c \in (near - 1)..(near + 1) : c >= 0} :
            fits(k) /\ ~fits(k + 1)

\* int(n / x): the quotient is rounded to the nearest double before int()
\* truncates it, so it becomes fl + 1 when the exact quotient lies within half
\* a unit in the last place below fl + 1
int_truediv(n, x, near) ==
    LET fl == floor_truediv(n, x, near)
        t == 53 - (IF fl = 0 THEN -1 ELSE Log2Floor(fl, 1))
        lhs == BigAdd(BigShiftLeft(BigOfNat(n), x.scale + t), x.mantissa, 0)
        rhs == BigShiftLeft(BigMulSmall(x.mantissa, fl + 1, 0), t)
    IN  IF BigCompare(lhs, rhs) >= 0 THEN fl + 1 ELSE fl

\* the base durations get_operation_duration can return
BaseDurations ==
    {OPERATION_DURATIONS[op] : op \in DOMAIN OPERATION_DURATIONS} \cup {60}

\* the efficiency factors of the machines of the instances below:
\* 1.0, 30.0, 90.0, 1.1, 1.8 and 2.2
EfficiencyFactors ==
    {<<1, 1>>, <<30, 1>>, <<90, 1>>, <<11, 10>>, <<18, 10>>, <<22, 10>>}

\* int(base_duration / efficiency_factor), evaluated once for each pair
DurationTable ==
    [base_duration \in BaseDurations |->
        [efficiency_factor \in EfficiencyFactors |->
            int_truediv(base_duration,
                        float_value(efficiency_factor[1], efficiency_factor[2]),
                        (base_duration * efficiency_factor[2])
                            \div efficiency_factor[1])]]

\* int(base_duration / machine.efficiency_factor)
calculate_operation_duration(operation, machine) ==
    DurationTable[get_operation_duration(operation)][machine.efficiency_factor]

\* the operation instances (job index, operation index), in the order of the loops
OpsOfJob(j) == [i \in 1..Len(jobs[j].operations) |-> <<j, i>>]

RECURSIVE OpsUpTo(_)
OpsUpTo(n) == IF n = 0 THEN <<>> ELSE OpsUpTo(n - 1) \o OpsOfJob(n)

AllOps == OpsUpTo(Len(jobs))

OperationOf(o) == jobs[o[1]].operations[o[2]]

\* the dictionary keys (job_id, op_idx, machine_id) created for one operation
KeysOf(o) ==
    {<<jobs[o[1]].job_id, o[2], m.machine_id>> : m \in Range(compatible_machines(OperationOf(o)))}

MachineById(id) == CHOOSE m \in Range(machines) : m.machine_id = id

\* duration of the optional interval created under key k for operation o
DurationOf(o, k) == calculate_operation_duration(OperationOf(o), MachineById(k[3]))

KeyOf(o, m) == <<jobs[o[1]].job_id, o[2], m.machine_id>>

(* A solution of the model, as far as optimize reads it: presence[k] for   *)
(* every key, start[k] and end[k] for the keys whose presence is true.     *)
(* solver.Value is never called on the start or end of a candidate whose   *)
(* presence is false (optimizer.py:190-196), and an absent optional        *)
(* interval constrains neither, so those values are not represented.       *)
EmptySolution == [presence |-> EmptyDict, start |-> EmptyDict, end |-> EmptyDict]

MergeSolution(p, c) ==
    [presence |-> p.presence @@ c.presence, start |-> p.start @@ c.start, end |-> p.end @@ c.end]

RECURSIVE GCD(_, _)
GCD(a, b) == IF b = 0 THEN a ELSE GCD(b, a % b)

RECURSIVE SetGCD(_)
SetGCD(S) == IF S = {} THEN 0 ELSE LET x == CHOOSE y \in S : TRUE IN GCD(x, SetGCD(S \ {x}))

(* The values the solver is taken to give to start variables: the multiples *)
(* of TimeStep in the domain [0, horizon], TimeStep being the greatest      *)
(* common divisor of the horizon and of the positive durations of the       *)
(* model (1 minute when every duration is 0).  Moving the operations of any *)
(* solution, in time order, down to the previous multiple gives a solution  *)
(* again, so the least makespan is not changed by this.  The makespan      *)
(* variable takes the multiples of TimeStep in its domain as well.          *)
TimeStep ==
    LET ds == {d \in UNION {{DurationOf(o, k) : k \in KeysOf(o)} : o \in Range(AllOps)} : d > 0}
    IN  IF ds = {} THEN 1 ELSE SetGCD(ds \cup {horizon})

TimeValues == {t \in 0..horizon : t % TimeStep = 0}

\* solutions in which some operation starts after minute LatestStart are left out
StartValues == {t \in TimeValues : t <= LatestStart}

\* NewOptionalIntervalVar(start, duration, end, presence): when present, end = start + duration
interval_end(start, duration) == start + duration

\* _create_variables: the values the variables of one operation can take:
\* presence in {0,1}, start and end in [0, horizon], the interval's equation
OpChoices(o) ==
    LET ks == KeysOf(o)
        frag(P, st) ==
            [presence |-> [k \in ks |-> k \in P],
             start    |-> st,
             end      |-> [k \in P |-> interval_end(st[k], DurationOf(o, k))]]
    IN  UNION { { frag(P, st) : st \in {f \in [P -> StartValues] :
                                          \A k \in P : interval_end(f[k], DurationOf(o, k)) <= horizon} }
                : P \in SUBSET ks }

\* a variant that lets an operation go unassigned (sum <= 1)
add_assignment_constraints_at_most_one(s, ops) ==
    \A o \in ops : Cardinality({k \in KeysOf(o) : s.presence[k]}) <= 1

\* _add_assignment_constraints: sum of the presences of an operation's candidates == 1
\* (for an operation with no compatible machine the sum is over nothing: 0 == 1)
add_assignment_constraints(s, ops) ==
    \A o \in ops : Cardinality({k \in KeysOf(o) : s.presence[k]}) = 1

\* a variant that orders consecutive operations only when they share a machine
add_precedence_constraints_same_machine(s, ops) ==
    \A o \in ops :
        LET nxt == <<o[1], o[2] + 1>>
        IN  nxt \in ops =>
                \A k1 \in KeysOf(o) : \A k2 \in KeysOf(nxt) :
                    (k1[3] = k2[3] /\ s.presence[k1] /\ s.presence[k2]) => s.end[k1] <= s.start[k2]

\* _add_precedence_constraints: end[i, m1] <= start[i+1, m2] if both are present
add_precedence_constraints(s, ops) ==
    \A o \in ops :
        LET nxt == <<o[1], o[2] + 1>>
        IN  nxt \in ops =>
                \A k1 \in KeysOf(o) : \A k2 \in KeysOf(nxt) :
                    (s.presence[k1] /\ s.presence[k2]) => s.end[k1] <= s.start[k2]

\* AddNoOverlap over an interval list: the present intervals can be put in a
\* sequence with end <= next start, i.e. every two of them are so ordered
NoOverlap(s, ks) ==
    \A k1 \in ks : \A k2 \in ks :
        (k1 # k2 /\ s.presence[k1] /\ s.presence[k2]) =>
            (s.end[k1] <= s.start[k2] \/ s.end[k2] <= s.start[k1])

\* a variant that starts a new interval list for every job
add_resource_constraints_per_job(s, ops) ==
    \A m \in Range(machines) : \A j \in 1..Len(jobs) :
        NoOverlap(s, {k \in UNION {KeysOf(o) : o \in {x \in ops : x[1] = j}} : k[3] = m.machine_id})

\* _add_resource_constraints: per machine, no overlap of the intervals keyed by it
add_resource_constraints(s, ops) ==
    \A m \in Range(machines) :
        NoOverlap(s, {k \in UNION {KeysOf(o) : o \in ops} : k[3] = m.machine_id})

\* _add_time_constraints: start >= 0 if present
add_time_constraints(s, ops) ==
    \A o \in ops : \A k \in KeysOf(o) : s.presence[k] => s.start[k] >= 0

\* _add_constraints
add_constraints(s, ops) ==
    /\ add_assignment_constraints(s, ops)
    /\ add_precedence_constraints(s, ops)
    /\ add_resource_constraints(s, ops)
    /\ add_time_constraints(s, ops)

\* the assignments of the variables of the first n operations that satisfy
\* every constraint among them (each constraint is a conjunction over
\* operations, so a solution of the whole model restricts to one of these)
RECURSIVE SolutionsUpTo(_)
SolutionsUpTo(n) ==
    IF n = 0 THEN {EmptySolution}
    ELSE LET ops == {AllOps[i] : i \in 1..n}
             choices == OpChoices(AllOps[n])
         IN  UNION {{MergeSolution(p, c) :
                        c \in {x \in choices : add_constraints(MergeSolution(p, x), ops)}} :
                    p \in SolutionsUpTo(n - 1)}

Solutions == SolutionsUpTo(Len(AllOps))

\* _set_objective: the makespan variable, in [0, horizon], is >= the end of each
\* job's last operation on the machine present for it
LastOp(j) == <<j, Len(jobs[j].operations)>>

set_objective(s, v) ==
    \A j \in 1..Len(jobs) : \A k \in KeysOf(LastOp(j)) : s.presence[k] => v >= s.end[k]

MakespanValues(s) == {v \in TimeValues : set_objective(s, v)}

\* model.Minimize(max_end): the least makespan any solution allows
OptimalMakespan == SetMin(UNION {MakespanValues(s) : s \in Solutions})

----------------------------------------------------------------------------
(* _create_schedule *)

OpAssignments(s, o) ==
    LET chosen == SelectSeq(compatible_machines(OperationOf(o)),
                            LAMBDA m : s.presence[KeyOf(o, m)])
    IN  [x \in 1..Len(chosen) |->
            [operation  |-> OperationOf(o),
             machine    |-> chosen[x].machine_id,
             start_time |-> s.start[KeyOf(o, chosen[x])],
             end_time   |-> s.end[KeyOf(o, chosen[x])]]]

RECURSIVE JobAssignments(_, _, _)
JobAssignments(s, j, n) ==
    IF n = 0 THEN <<>> ELSE JobAssignments(s, j, n - 1) \o OpAssignments(s, <<j, n>>)

create_schedule(s, v) ==
    [jobs |-> [j \in 1..Len(jobs) |->
                  [job_id |-> jobs[j].job_id,
                   operations |-> JobAssignments(s, j, Len(jobs[j].operations))]],
     makespan |-> v]

----------------------------------------------------------------------------
(* ProductionScheduler.optimize *)

\* what optimize leaves behind: the solver's status, the value returned, the exception raised
Outcome(st, res, exc) == [status |-> st, result |-> res, raised |-> exc]

\* solver.Solve(model) followed by the branch on its status.  The solver is
\* the external CP-SAT library; its contract: OPTIMAL comes with a solution
\* of least objective, FEASIBLE with any solution, INFEASIBLE only when there
\* is none, UNKNOWN when the time budget ran out before any was found.
\* optimize returns the schedule or None and nothing else: the status is
\* only logged.
solve_and_return ==
    LET sols == Solutions
    IN  IF sols = {}
        THEN {Outcome(st, PyNone, "none") : st \in {"INFEASIBLE", "UNKNOWN"}}
        ELSE LET best == OptimalMakespan
             IN  {Outcome("UNKNOWN", PyNone, "none")}
                 \cup {Outcome("OPTIMAL", create_schedule(s, best), "none") :
                          s \in {x \in sols : best \in MakespanValues(x)}}
                 \cup UNION {{Outcome("FEASIBLE", create_schedule(s, v), "none") :
                                 v \in MakespanValues(s)} : s \in sols}

\* optimize: _create_variables, _add_constraints, _set_objective, Solve, return.
\* _set_objective indexes job.operations[len - 1]: IndexError for a job
\* without operations, raised before the solver is called.
optimize_outcomes ==
    IF \E j \in 1..Len(jobs) : jobs[j].operations = <<>>
    THEN {Outcome("NOT_SOLVED", PyNone, "IndexError")}
    ELSE solve_and_return

----------------------------------------------------------------------------
(* ScheduleValidator.validate_schedule *)

\* an issue string, as the tuple of the parts the f-string puts together
InvalidFormatIssue == <<"Invalid schedule format">>

MissingOperationsIssue(job) ==
    <<"Missing operations for job", IF "job_id" \in DOMAIN job THEN job.job_id ELSE "unknown">>

InvalidSequenceIssue(job, curr_op, next_op) ==
    <<"Invalid sequence in job", job.job_id, curr_op.operation, "ends after",
      next_op.operation, "starts">>

\* a variant that also rejects an operation starting when the previous one ends
out_of_sequence_or_touching(curr_op, next_op) == curr_op.end_time >= next_op.start_time

\* the comparison of line 27: is operation i out of sequence with operation i+1
out_of_sequence(curr_op, next_op) == curr_op.end_time > next_op.start_time

\* one pass of the loop over range(len(operations) - 1); acc is the issues
\* list so far and the exception raised, if any (a missing key is a KeyError)
check_pair(job, i, acc) ==
    LET curr_op == job.operations[i]
        next_op == job.operations[i + 1]
    IN  IF acc.raised # "none" THEN acc
        ELSE IF "end_time" \notin DOMAIN curr_op \/ "start_time" \notin DOMAIN next_op
        THEN [acc EXCEPT !.raised = "KeyError"]
        ELSE IF ~out_of_sequence(curr_op, next_op) THEN acc
        ELSE IF \/ "job_id" \notin DOMAIN job
                \/ "operation" \notin DOMAIN curr_op
                \/ "operation" \notin DOMAIN next_op
        THEN [acc EXCEPT !.raised = "KeyError"]
        ELSE [acc EXCEPT !.issues = Append(@, InvalidSequenceIssue(job, curr_op, next_op))]

RECURSIVE check_sequence(_, _, _)
check_sequence(job, n, acc) ==
    IF n = 0 THEN acc ELSE check_pair(job, n, check_sequence(job, n - 1, acc))

\* one pass of the loop over schedule['jobs']
check_job(job, acc) ==
    IF acc.raised # "none" THEN acc
    ELSE IF "operations" \notin DOMAIN job
    THEN [acc EXCEPT !.issues = Append(@, MissingOperationsIssue(job))]
    ELSE IF Len(job.operations) = 0 THEN acc
    ELSE check_sequence(job, Len(job.operations) - 1, acc)

RECURSIVE check_jobs(_, _, _)
check_jobs(js, n, acc) ==
    IF n = 0 THEN acc ELSE check_job(js[n], check_jobs(js, n - 1, acc))

\* validate_schedule: [valid, issues] as returned, or raised # "none" and no value
validate_schedule(schedule) ==
    IF ~Truthy(schedule) \/ "jobs" \notin DOMAIN schedule
    THEN [valid |-> FALSE, issues |-> <<InvalidFormatIssue>>, raised |-> "none"]
    ELSE LET r == check_jobs(schedule.jobs, Len(schedule.jobs), [issues |-> <<>>, raised |-> "none"])
         IN  IF r.raised # "none"
             THEN [valid |-> FALSE, issues |-> <<>>, raised |-> r.raised]
             ELSE [valid |-> Len(r.issues) = 0, issues |-> r.issues, raised |-> "none"]

----------------------------------------------------------------------------
(* ProductionScheduler.get_schedule_statistics *)

\* every operation record of the schedule, job after job
RECURSIVE AllAssignments(_, _)
AllAssignments(schedule, n) ==
    IF n = 0 THEN <<>>
    ELSE AllAssignments(schedule, n - 1) \o schedule.jobs[n].operations

Assignments(schedule) == AllAssignments(schedule, Len(schedule.jobs))

OnMachine(schedule, id) == SelectSeq(Assignments(schedule), LAMBDA op : op.machine = id)

\* machine_time: sum of end_time - start_time over the machine's operations
machine_time(schedule, id) ==
    LET ops == OnMachine(schedule, id)
    IN  SeqSum([x \in 1..Len(ops) |-> ops[x].end_time - ops[x].start_time])

\* machine_ops: number of the machine's operations
machine_ops(schedule, id) == Len(OnMachine(schedule, id))

\* (machine_time / makespan) * 100, a float: kept as the fraction <<numerator, denominator>>
utilization(time, makespan) == <<time * 100, makespan>>

\* the division of line 260 is evaluated for every machine: it raises when makespan is 0
utilization_raises(schedule) == machines # <<>> /\ schedule.makespan = 0

job_duration(job) ==
    SetMax({job.operations[i].end_time : i \in DOMAIN job.operations})
        - SetMin({job.operations[i].start_time : i \in DOMAIN job.operations})

get_schedule_statistics(schedule) ==
    IF ~Truthy(schedule) THEN [value |-> EmptyDict, raised |-> "none"]
    ELSE IF utilization_raises(schedule)
    THEN [value |-> EmptyDict, raised |-> "ZeroDivisionError"]
    ELSE [value |->
            [makespan |-> schedule.makespan,
             total_jobs |-> Len(schedule.jobs),
             machine_utilization |->
                [id \in {m.machine_id : m \in Range(machines)} |->
                    utilization(machine_time(schedule, id), schedule.makespan)],
             job_durations |->
                [id \in {schedule.jobs[j].job_id :
                            j \in {x \in DOMAIN schedule.jobs : schedule.jobs[x].operations # <<>>}} |->
                    job_duration(CHOOSE job \in Range(schedule.jobs) : job.job_id = id)],
             machine_load |->
                [id \in {m.machine_id : m \in Range(machines)} |-> machine_ops(schedule, id)]],
          raised |-> "none"]

----------------------------------------------------------------------------
(* The inputs *)

JobIds == <<"J1", "J2">>

OpTypes == {"cutting", "welding"}

\* the operations lists of the jobs added: any list over OpTypes, up to MaxOps long
JobOperations == UNION {[1..n -> OpTypes] : n \in 0..MaxOps}

\* the machines added: M1 cuts in 1 minute and welds in 2, M2 welds in 0
MachineCatalog ==
    {Machine("M1", {"cutting", "welding"}, 30, 1), Machine("M2", {"welding"}, 90, 1)}

\* create_sample_data
SampleJobs ==
    <<Job("J1", <<"cutting", "welding", "assembly">>), Job("J2", <<"cutting", "assembly">>)>>

SampleMachines ==
    <<Machine("M1", {"cutting", "welding"}, 1, 1), Machine("M2", {"welding", "assembly"}, 1, 1)>>

\* ProductionScheduler(horizon_minutes=480)
SampleHorizon == 480

----------------------------------------------------------------------------
(* States and actions *)

NoCallYet ==
    /\ status = "NOT_SOLVED"
    /\ result = PyNone
    /\ input = PyNone
    /\ valid = FALSE
    /\ issues = <<>>
    /\ stats = EmptyDict
    /\ raised = "none"

\* ProductionScheduler(horizon_minutes=Horizon)
Init ==
    /\ horizon = Horizon
    /\ jobs = <<>>
    /\ machines = <<>>
    /\ pc = "setup"
    /\ NoCallYet

add_job(ops) ==
    /\ pc = "setup"
    /\ Len(jobs) < Len(JobIds)
    /\ jobs' = Append(jobs, Job(JobIds[Len(jobs) + 1], ops))
    /\ UNCHANGED <<horizon, machines, pc, status, result, input, valid, issues, stats, raised>>

add_machine(machine) ==
    /\ pc = "setup"
    /\ \A m \in Range(machines) : m.machine_id # machine.machine_id
    /\ machines' = Append(machines, machine)
    /\ UNCHANGED <<horizon, jobs, pc, status, result, input, valid, issues, stats, raised>>

optimize ==
    /\ pc = "setup"
    /\ \E out \in optimize_outcomes :
        /\ status' = out.status
        /\ result' = out.result
        /\ raised' = out.raised
    /\ pc' = "optimized"
    /\ UNCHANGED <<horizon, jobs, machines, input, valid, issues, stats>>

\* main: "if schedule:" then ScheduleValidator.validate_schedule(schedule)
validate ==
    /\ pc = "optimized"
    /\ raised = "none"
    /\ Truthy(result)
    /\ LET r == validate_schedule(result)
       IN  /\ valid' = r.valid
           /\ issues' = r.issues
           /\ raised' = r.raised
    /\ input' = result
    /\ pc' = "validated"
    /\ UNCHANGED <<horizon, jobs, machines, status, result, stats>>

\* main: a valid schedule goes on to scheduler.get_schedule_statistics(schedule)
statistics ==
    /\ pc = "validated"
    /\ raised = "none"
    /\ valid
    /\ LET r == get_schedule_statistics(result)
       IN  /\ stats' = r.value
           /\ raised' = r.raised
    /\ pc' = "done"
    /\ UNCHANGED <<horizon, jobs, machines, status, result, input, valid, issues>>

Next ==
    \/ \E ops \in JobOperations : add_job(ops)
    \/ \E machine \in MachineCatalog : add_machine(machine)
    \/ optimize
    \/ validate
    \/ statistics

Spec == Init /\ [][Next]_vars

\* main, after its two loops of add_job and add_machine over the sample data
InitSample ==
    /\ horizon = SampleHorizon
    /\ jobs = SampleJobs
    /\ machines = SampleMachines
    /\ pc = "setup"
    /\ NoCallYet

NextSample == optimize \/ validate

SpecSample == InitSample /\ [][NextSample]_vars

----------------------------------------------------------------------------
(* One-operation jobs on machines whose efficiency factors are 1.0, 1.1, 1.8 or 2.2 *)

DurationHorizon == 60

DurationOps == {"cutting", "surface_finish"}

DurationFactors == {<<1, 1>>, <<11, 10>>, <<18, 10>>, <<22, 10>>}

\* ProductionScheduler(horizon_minutes=DurationHorizon), one add_job and two add_machine
InitDuration ==
    /\ horizon = DurationHorizon
    /\ \E op \in DurationOps : jobs = <<Job("J1", <<op>>)>>
    /\ \E e1 \in DurationFactors : \E e2 \in DurationFactors :
        machines = <<Machine("M1", DurationOps, e1[1], e1[2]),
                     Machine("M2", DurationOps, e2[1], e2[2])>>
    /\ pc = "setup"
    /\ NoCallYet

NextDuration == optimize \/ validate

SpecDuration == InitDuration /\ [][NextDuration]_vars

----------------------------------------------------------------------------
(* Hand-constructed schedules handed to the validator *)

HandMachines == {"M1", "M2"}

\* the operation at position i of a hand-constructed job
HandOpNames == <<"cutting", "welding", "assembly">>

\* number of operations of each job of a hand-constructed schedule
HandShapes == {<<>>, <<0>>, <<1>>, <<2>>, <<3>>, <<1, 1>>, <<2, 1>>, <<1, 2>>, <<2, 2>>}

\* the shapes to which one defect (a missing key) is applied
DefectShapes == {<<1>>, <<2>>, <<1, 1>>}

HandOp(i, c) ==
    [operation |-> HandOpNames[i], machine |-> c[1], start_time |-> c[2], end_time |-> c[3]]

HandOperations(n) ==
    {[i \in 1..n |-> HandOp(i, c[i])] :
        c \in [1..n -> HandMachines \X (0..MaxTime) \X (0..MaxTime)]}

HandJob(j, ops) == [job_id |-> JobIds[j], operations |-> ops]

HandJobLists(shape) ==
    IF Len(shape) = 0 THEN {<<>>}
    ELSE IF Len(shape) = 1 THEN {<<HandJob(1, a)>> : a \in HandOperations(shape[1])}
    ELSE {<<HandJob(1, a), HandJob(2, b)>> :
             a \in HandOperations(shape[1]), b \in HandOperations(shape[2])}

EndTimes(js) == UNION {{js[j].operations[i].end_time : i \in DOMAIN js[j].operations} : j \in DOMAIN js}

HandSchedule(js) ==
    [jobs |-> js, makespan |-> IF EndTimes(js) = {} THEN 0 ELSE SetMax(EndTimes(js))]

Without(d, key) == [k \in DOMAIN d \ {key} |-> d[k]]

\* the schedule with key removed from job j
DropJobKey(schedule, j, key) ==
    [schedule EXCEPT !.jobs = [@ EXCEPT ![j] = Without(@, key)]]

\* the schedule with key removed from operation i of job j
DropOpKey(schedule, j, i, key) ==
    [schedule EXCEPT !.jobs = [@ EXCEPT ![j] =
        [job_id |-> @.job_id, operations |-> [@.operations EXCEPT ![i] = Without(@, key)]]]]

\* the schedules made of js by leaving one key out of a job or an operation
DefectiveSchedules(js) ==
    {DropJobKey(HandSchedule(js), j, key) : j \in DOMAIN js, key \in {"job_id", "operations"}}
    \cup UNION {{DropOpKey(HandSchedule(js), j, i, key) :
                    i \in DOMAIN js[j].operations,
                    key \in {"operation", "machine", "start_time", "end_time"}} :
                j \in DOMAIN js}

\* what a caller may hand to the validator for the jobs js of a given shape
HandVariants(shape, js) ==
    {HandSchedule(js)} \cup (IF shape \in DefectShapes THEN DefectiveSchedules(js) ELSE {})

\* a value that is no schedule at all: None, {}, a dict without 'jobs'
NotASchedule(n) == IF n = 0 THEN PyNone ELSE IF n = 1 THEN EmptyDict ELSE [makespan |-> 0]

\* a caller about to validate a schedule it constructed by hand
InitHand ==
    /\ horizon = Horizon
    /\ jobs = <<>>
    /\ machines = <<>>
    /\ pc = "hand"
    /\ status = "NOT_SOLVED"
    /\ result = PyNone
    /\ \/ \E n \in 0..2 : input = NotASchedule(n)
       \/ \E shape \in HandShapes : \E js \in HandJobLists(shape) :
            input \in HandVariants(shape, js)
    /\ valid = FALSE
    /\ issues = <<>>
    /\ stats = EmptyDict
    /\ raised = "none"

\* ScheduleValidator.validate_schedule(input)
validate_hand ==
    /\ pc = "hand"
    /\ LET r == validate_schedule(input)
       IN  /\ valid' = r.valid
           /\ issues' = r.issues
           /\ raised' = r.raised
    /\ pc' = "validated"
    /\ UNCHANGED <<horizon, jobs, machines, status, result, input, stats>>

NextHand == validate_hand

SpecHand == InitHand /\ [][NextHand]_vars

----------------------------------------------------------------------------
(* Properties *)

\* optimize has returned a schedule
Returned == pc # "setup" /\ raised # "IndexError" /\ Truthy(result)

Entry(j) == result.jobs[j]

CapableMachine(id, operation) ==
    \E m \in Range(machines) : m.machine_id = id /\ operation \in m.capabilities

\* C1: in every schedule optimize returns, the entry of every added job holds
\* exactly one assignment per operation of the job, in operation order, each
\* on an added machine whose capabilities contain the operation's type.
C1_ExactlyOneAssignment ==
    Returned =>
        /\ Len(result.jobs) = Len(jobs)
        /\ \A j \in 1..Len(jobs) :
            /\ Entry(j).job_id = jobs[j].job_id
            /\ Len(Entry(j).operations) = Len(jobs[j].operations)
            /\ \A i \in 1..Len(jobs[j].operations) :
                /\ Entry(j).operations[i].operation = jobs[j].operations[i]
                /\ CapableMachine(Entry(j).operations[i].machine, jobs[j].operations[i])

\* a returned schedule for two jobs of two operations, with two machines that both weld
C1_Witness ==
    /\ Returned
    /\ Len(machines) = 2
    /\ Len(jobs) = 2
    /\ \A j \in 1..2 : Len(jobs[j].operations) = 2 /\ Len(Entry(j).operations) = 2
    /\ \E j \in 1..2 : \E i \in 1..2 :
        jobs[j].operations[i] = "welding" /\ Entry(j).operations[i].machine = "M2"

\* C2: in every schedule optimize returns, each operation of a job ends no
\* later than the next operation of the job starts, on whatever machines the
\* two were placed.
C2_Precedence ==
    Returned =>
        \A j \in 1..Len(result.jobs) : \A i \in 1..(Len(Entry(j).operations) - 1) :
            Entry(j).operations[i].end_time <= Entry(j).operations[i + 1].start_time

\* a returned schedule in which consecutive operations of a job sit on different
\* machines, the first of them taking time
C2_Witness ==
    /\ Returned
    /\ \E j \in 1..Len(result.jobs) : \E i \in 1..(Len(Entry(j).operations) - 1) :
        /\ Entry(j).operations[i].machine # Entry(j).operations[i + 1].machine
        /\ Entry(j).operations[i].start_time < Entry(j).operations[i].end_time

\* the slots <<job, position>> of the assignments of a schedule
Slots(schedule) ==
    UNION {{<<j, i>> : i \in DOMAIN schedule.jobs[j].operations} : j \in DOMAIN schedule.jobs}

At(schedule, slot) == schedule.jobs[slot[1]].operations[slot[2]]

Greater(a, b) == IF a >= b THEN a ELSE b

Lesser(a, b) == IF a <= b THEN a ELSE b

\* [start, end) of a and of b have a point in common
Overlap(a, b) == Greater(a.start_time, b.start_time) < Lesser(a.end_time, b.end_time)

\* C3: in every schedule optimize returns, the intervals [start_time, end_time)
\* of the assignments placed on one machine are pairwise disjoint; they may touch.
C3_NoOverlapOnMachine ==
    Returned =>
        \A a \in Slots(result) : \A b \in Slots(result) :
            (a # b /\ At(result, a).machine = At(result, b).machine)
                => ~Overlap(At(result, a), At(result, b))

\* a returned schedule with operations of two jobs touching on one machine
C3_Witness ==
    /\ Returned
    /\ \E a \in Slots(result) : \E b \in Slots(result) :
        /\ a[1] # b[1]
        /\ At(result, a).machine = At(result, b).machine
        /\ At(result, a).start_time < At(result, a).end_time
        /\ At(result, b).start_time < At(result, b).end_time
        /\ At(result, a).end_time = At(result, b).start_time

MaxEndTime(schedule) ==
    IF Slots(schedule) = {} THEN 0
    ELSE SetMax({At(schedule, a).end_time : a \in Slots(schedule)})

\* C4: in every schedule optimize returns, with status OPTIMAL or FEASIBLE,
\* makespan equals the greatest end_time of the schedule and is at most the horizon.
C4_MakespanIsMaxEnd ==
    (Returned /\ Slots(result) # {})
        => (result.makespan = MaxEndTime(result) /\ result.makespan <= horizon)

\* C5 as stated: the schedule returned for the sample data has a makespan of at
\* most 195 minutes and the validator returns (True, []) for it.
C5_MakespanAtMost195 ==
    Returned =>
        /\ result.makespan <= 195
        /\ pc = "validated" => (raised = "none" /\ valid /\ issues = <<>>)

\* C5: the schedule optimize returns for the sample data has a makespan of at
\* least 240 minutes, exactly 240 when the status is OPTIMAL, and at most the
\* horizon, and the validator returns (True, []) for it.
C5_MakespanAtLeast240 ==
    Returned =>
        /\ result.makespan >= 240
        /\ result.makespan <= horizon
        /\ status = "OPTIMAL" => result.makespan = 240
        /\ pc = "validated" => (raised = "none" /\ valid /\ issues = <<>>)

\* the optimal schedule of the sample data, validated
C5_Witness ==
    /\ jobs = SampleJobs
    /\ machines = SampleMachines
    /\ pc = "validated"
    /\ status = "OPTIMAL"
    /\ result.makespan = 240
    /\ valid

has_incompatible_operation ==
    \E o \in Range(AllOps) : compatible_machines(OperationOf(o)) = <<>>

\* C6: when an operation of an added job has a type no added machine lists,
\* optimize raises a configuration error.
C6_IncompatibleOperationRaises ==
    (pc # "setup" /\ has_incompatible_operation)
        => raised \in {"ConfigurationError", "IncompatibleOperationError"}

\* every key the wire shape gives a schedule, its jobs and their operations is there
WellFormed(schedule) ==
    /\ ~IsNone(schedule)
    /\ "jobs" \in DOMAIN schedule
    /\ \A j \in DOMAIN schedule.jobs :
        /\ {"job_id", "operations"} \subseteq DOMAIN schedule.jobs[j]
        /\ \A i \in DOMAIN schedule.jobs[j].operations :
            {"operation", "machine", "start_time", "end_time"}
                \subseteq DOMAIN schedule.jobs[j].operations[i]

ConflictPairs(schedule) ==
    {p \in Slots(schedule) \X Slots(schedule) :
        /\ p[1] # p[2]
        /\ At(schedule, p[1]).machine = At(schedule, p[2]).machine
        /\ Overlap(At(schedule, p[1]), At(schedule, p[2]))}

InSequence(schedule) ==
    \A j \in DOMAIN schedule.jobs : \A i \in 1..(Len(schedule.jobs[j].operations) - 1) :
        schedule.jobs[j].operations[i].end_time <= schedule.jobs[j].operations[i + 1].start_time

StartsBeforeEnds(schedule) ==
    \A a \in Slots(schedule) : At(schedule, a).start_time <= At(schedule, a).end_time

\* C7: for a hand-constructed schedule whose only defect is one pair of
\* operations overlapping on one machine, the validator returns False with
\* exactly one issue, which names that machine.
C7_OverlapReported ==
    (/\ pc = "validated"
     /\ WellFormed(input)
     /\ InSequence(input)
     /\ StartsBeforeEnds(input)
     /\ \E a \in Slots(input) : \E b \in Slots(input) :
            ConflictPairs(input) = {<<a, b>>, <<b, a>>})
        => /\ raised = "none"
           /\ valid = FALSE
           /\ Len(issues) = 1
           /\ \E p \in ConflictPairs(input) : At(input, p[1]).machine \in Range(issues[1])

\* C8: the validator never raises; for an input with a missing key it returns
\* False and at least one issue.
C8_NeverRaises ==
    pc = "validated" =>
        /\ raised = "none"
        /\ ~WellFormed(input) => (valid = FALSE /\ Len(issues) >= 1)

\* the status that comes with the value optimize returned, "none" if it has none
ReturnedStatus(v) == IF "status" \in DOMAIN v THEN v.status ELSE "none"

\* C9: optimize returns a schedule exactly when the status is OPTIMAL or
\* FEASIBLE, and for INFEASIBLE and UNKNOWN it returns the status with no schedule.
C9_StatusReturned ==
    (pc # "setup" /\ raised # "IndexError") =>
        /\ Truthy(result) <=> status \in {"OPTIMAL", "FEASIBLE"}
        /\ status \in {"INFEASIBLE", "UNKNOWN"} => ReturnedStatus(result) = status

\* C10: get_schedule_statistics returns without an error, reports 0% for every
\* machine when makespan is 0 and for a machine without assignments, and
\* machine_load is the number of assignments placed on the machine.
C10_ZeroUtilization ==
    pc = "done" =>
        /\ raised = "none"
        /\ \A m \in Range(machines) :
            LET load == Cardinality({a \in Slots(result) : At(result, a).machine = m.machine_id})
            IN  /\ stats.machine_load[m.machine_id] = load
                /\ (result.makespan = 0 \/ load = 0)
                      => stats.machine_utilization[m.machine_id][1] = 0

\* the added machine an assignment names
AssignedMachine(a) == CHOOSE m \in Range(machines) : m.machine_id = a.machine

\* C11: for every assignment of a returned schedule, end_time - start_time is
\* the floor of the operation type's base duration divided by the efficiency
\* factor num/den of the assigned machine, and
\* 0 <= start_time <= end_time <= horizon.
C11_DurationIsFloor ==
    Returned =>
        \A slot \in Slots(result) :
            LET a == At(result, slot)
                base_duration == get_operation_duration(a.operation)
                num == AssignedMachine(a).efficiency_factor[1]
                den == AssignedMachine(a).efficiency_factor[2]
                duration == a.end_time - a.start_time
            IN  /\ duration * num <= base_duration * den
                /\ base_duration * den < (duration + 1) * num
                /\ 0 <= a.start_time
                /\ a.start_time <= a.end_time
                /\ a.end_time <= horizon

\* the keys the sequence check reads are all there
HasSequenceKeys(schedule) ==
    /\ ~IsNone(schedule)
    /\ "jobs" \in DOMAIN schedule
    /\ \A j \in DOMAIN schedule.jobs :
        /\ {"job_id", "operations"} \subseteq DOMAIN schedule.jobs[j]
        /\ \A i \in DOMAIN schedule.jobs[j].operations :
            {"operation", "start_time", "end_time"}
                \subseteq DOMAIN schedule.jobs[j].operations[i]

\* the pairs (i, i+1) of job j, as <<j, i>>, whose first operation ends after the second starts
LatePairs(schedule) ==
    {p \in Slots(schedule) :
        /\ p[2] < Len(schedule.jobs[p[1]].operations)
        /\ At(schedule, p).end_time > At(schedule, <<p[1], p[2] + 1>>).start_time}

\* job order, then operation order
Precedes(p, q) == p[1] < q[1] \/ (p[1] = q[1] /\ p[2] < q[2])

\* C12: for a schedule with all the keys the sequence check reads, the validator
\* returns valid = True exactly when issues is empty, and issues holds exactly
\* one 'Invalid sequence' entry per pair of consecutive operations whose first
\* ends after the second starts, in job order then operation order; a pair
\* that only touches (end_time = start_time) gives no entry.
C12_SequenceIssues ==
    (pc = "validated" /\ HasSequenceKeys(input)) =>
        /\ raised = "none"
        /\ valid = (issues = <<>>)
        /\ Len(issues) = Cardinality(LatePairs(input))
        /\ \A p \in LatePairs(input) :
            issues[1 + Cardinality({q \in LatePairs(input) : Precedes(q, p)})]
                = <<"Invalid sequence in job", input.jobs[p[1]].job_id,
                    At(input, p).operation, "ends after",
                    At(input, <<p[1], p[2] + 1>>).operation, "starts">>

\* a validated schedule of two jobs: the first has a zero-duration operation
\* that ends exactly when the next one starts, the second has a late pair
C12_Witness ==
    /\ pc = "validated"
    /\ HasSequenceKeys(input)
    /\ Len(input.jobs) = 2
    /\ \A j \in 1..2 : Len(input.jobs[j].operations) = 2
    /\ At(input, <<1, 1>>).start_time = At(input, <<1, 1>>).end_time
    /\ At(input, <<1, 1>>).end_time = At(input, <<1, 2>>).start_time
    /\ LatePairs(input) = {<<2, 1>>}
    /\ Len(issues) = 1
    /\ ~valid

\* C13: whenever some operation of an added job has no compatible machine,
\* optimize returns None for the whole instance: it raises nothing and the
\* value it returns is None, never a schedule that leaves the operation out.
C13_ReturnsNone ==
    (pc # "setup" /\ has_incompatible_operation)
        => (raised = "none" /\ result = PyNone)

====
